---- MODULE Spec2Model ----
(***************************************************************************)
(* MapUtil (src/unnamed/part_000): read-side queries over an OpenLayers    *)
(* layer tree, scale/zoom arithmetic and the legend URL builder.           *)
(*                                                                         *)
(* JavaScript values are records tagged by field t, so that any two of     *)
(* them can be compared: undefined, a thrown TypeError, the map, a layer   *)
(* reference, an array, an object.                                         *)
(***************************************************************************)
EXTENDS Integers, Sequences, FiniteSets, TLC

VARIABLES scene, call, ret

vars == <<scene, call, ret>>

\* Largest number of layers (groups and leaves) added below the map's root group.
MaxLayers == 4

\* Largest number of layers added when layers and groups carry names.
MaxNamedLayers == 3

(***************************************************************************)
(* JavaScript values                                                       *)
(***************************************************************************)
Undefined == [t |-> "undefined"]

\* The outcome of a call that threw a TypeError (a method read off a value
\* that does not have it, or off null/undefined).
TypeError == [t |-> "TypeError"]

MapRef == [t |-> "map"]

LayerRef(n) == [t |-> "layer", id |-> n]

Array(s) == [t |-> "array", items |-> s]

EmptyObject == [t |-> "object"]

NoCall == [op |-> "none"]

\* A layer that was never added to the map.
Detached == LayerRef(-1)

NoName == "<unset>"

\* layer.getSource() of a layer without a source: null
NoSource == [kind |-> "null"]

(***************************************************************************)
(* The scene: node 0 is the map's root layer group (map.getLayerGroup());  *)
(* every other node is an ol/layer/Group or a leaf ol/layer/Layer.         *)
(* scene[n].layers is the ordered child collection of a group.             *)
(***************************************************************************)
Group(nm) == [kind |-> "group", layers |-> <<>>, name |-> nm, source |-> NoSource]

Leaf(nm, src) == [kind |-> "layer", layers |-> <<>>, name |-> nm, source |-> src]

EmptyScene == [n \in {0} |-> Group(NoName)]

\* x instanceof OlMap
IsMap(x) == x.t = "map"

\* x instanceof OlLayerGroup
IsGroup(sc, x) == x.t = "layer" /\ x.id \in DOMAIN sc /\ sc[x.id].kind = "group"

\* collection.getLayers().getArray() of a map or a group, as layer references
getLayers(sc, x) ==
  LET g == IF IsMap(x) THEN 0 ELSE x.id
  IN  [i \in 1..Len(sc[g].layers) |-> LayerRef(sc[g].layers[i])]

\* Array.prototype.indexOf, 0-based, -1 when absent
indexOf(arr, x) ==
  IF \E i \in 1..Len(arr) : arr[i] = x
  THEN (CHOOSE i \in 1..Len(arr) : arr[i] = x /\ \A j \in 1..(i-1) : arr[j] # x) - 1
  ELSE -1

\* Array.prototype.filter with the predicate given by the set of accepted values
filterArr(arr, keep) == SelectSeq(arr, LAMBDA e : e \in keep)

\* Every layer reference of the scene (the map's root group included).
AllRefs(sc) == {LayerRef(n) : n \in DOMAIN sc}

\* The default filter of getAllLayers, () => true, as the set of values it accepts.
TrueFilter(sc) == AllRefs(sc) \cup {Detached}

\* getAllLayers without its instanceof check of the collection.
RECURSIVE getAllLayersUnchecked(_, _, _)
getAllLayersUnchecked(sc, collection, filter) ==
  IF ~IsMap(collection) /\ ~IsGroup(sc, collection)
  THEN TypeError
  ELSE LET layers == getLayers(sc, collection)
           allLayers[i \in 0..Len(layers)] ==
             IF i = 0 THEN <<>>
             ELSE LET layer == layers[i]
                      below == IF IsGroup(sc, layer)
                               THEN filterArr(getAllLayersUnchecked(sc, layer, TrueFilter(sc)).items, filter)
                               ELSE <<>>
                      self  == IF layer \in filter THEN <<layer>> ELSE <<>>
                  IN  allLayers[i-1] \o below \o self
       IN  Array(allLayers[Len(layers)])

(***************************************************************************)
(* MapUtil.getAllLayers(collection, filter): groups are walked and then    *)
(* pushed themselves, after their descendants.                             *)
(***************************************************************************)
RECURSIVE getAllLayers(_, _, _)
getAllLayers(sc, collection, filter) ==
  IF ~IsMap(collection) /\ ~IsGroup(sc, collection)
  THEN Array(<<>>)
  ELSE LET layers == getLayers(sc, collection)
           \* allLayers after the first i rounds of layers.forEach
           allLayers[i \in 0..Len(layers)] ==
             IF i = 0 THEN <<>>
             ELSE LET layer == layers[i]
                      below == IF IsGroup(sc, layer)
                               THEN filterArr(getAllLayers(sc, layer, TrueFilter(sc)).items, filter)
                               ELSE <<>>
                      self  == IF layer \in filter THEN <<layer>> ELSE <<>>
                  IN  allLayers[i-1] \o below \o self
       IN  Array(allLayers[Len(layers)])

\* getLayersByGroup pushing a nested group as well as what it holds.
RECURSIVE getLayersByGroupWithGroups(_, _, _)
getLayersByGroupWithGroups(sc, map, layerGroup) ==
  IF ~IsMap(layerGroup) /\ ~IsGroup(sc, layerGroup)
  THEN TypeError
  ELSE LET layers == getLayers(sc, layerGroup)
           layerCandidates[i \in 0..Len(layers)] ==
             IF i = 0 THEN <<>>
             ELSE LET layer == layers[i]
                  IN  IF IsGroup(sc, layer)
                      THEN Append(layerCandidates[i-1] \o getLayersByGroupWithGroups(sc, map, layer).items, layer)
                      ELSE Append(layerCandidates[i-1], layer)
       IN  Array(layerCandidates[Len(layers)])

(***************************************************************************)
(* MapUtil.getLayersByGroup(map, layerGroup): no check of layerGroup;      *)
(* layerGroup.getLayers() throws on a value without that method.           *)
(***************************************************************************)
RECURSIVE getLayersByGroup(_, _, _)
getLayersByGroup(sc, map, layerGroup) ==
  IF ~IsMap(layerGroup) /\ ~IsGroup(sc, layerGroup)
  THEN TypeError
  ELSE LET layers == getLayers(sc, layerGroup)
           layerCandidates[i \in 0..Len(layers)] ==
             IF i = 0 THEN <<>>
             ELSE LET layer == layers[i]
                  IN  IF IsGroup(sc, layer)
                      THEN layerCandidates[i-1] \o getLayersByGroup(sc, map, layer).items
                      ELSE Append(layerCandidates[i-1], layer)
       IN  Array(layerCandidates[Len(layers)])

\* getLayerPositionInfo without the !info.groupLayer test: a later sibling
\* group overwrites what an earlier one found.
RECURSIVE getLayerPositionInfoOverwrites(_, _, _)
getLayerPositionInfoOverwrites(sc, layer, groupLayerOrMap) ==
  IF ~IsGroup(sc, groupLayerOrMap) /\ ~IsMap(groupLayerOrMap)
  THEN TypeError
  ELSE LET groupLayer == IF IsGroup(sc, groupLayerOrMap) THEN groupLayerOrMap ELSE LayerRef(0)
           layers == getLayers(sc, groupLayer)
           info[i \in 0..Len(layers)] ==
             IF i = 0 THEN EmptyObject
             ELSE IF IsGroup(sc, layers[i])
                  THEN getLayerPositionInfoOverwrites(sc, layer, layers[i])
                  ELSE info[i-1]
       IN  IF indexOf(layers, layer) < 0
           THEN info[Len(layers)]
           ELSE [t |-> "object", position |-> indexOf(layers, layer), groupLayer |-> groupLayer]

(***************************************************************************)
(* MapUtil.getLayerPositionInfo(layer, groupLayerOrMap): a value that is   *)
(* not a group is asked for getLayerGroup(), which only a map has.         *)
(***************************************************************************)
RECURSIVE getLayerPositionInfo(_, _, _)
getLayerPositionInfo(sc, layer, groupLayerOrMap) ==
  IF ~IsGroup(sc, groupLayerOrMap) /\ ~IsMap(groupLayerOrMap)
  THEN TypeError
  ELSE LET groupLayer == IF IsGroup(sc, groupLayerOrMap) THEN groupLayerOrMap ELSE LayerRef(0)
           layers == getLayers(sc, groupLayer)
           \* info after the first i rounds of layers.forEach
           info[i \in 0..Len(layers)] ==
             IF i = 0 THEN EmptyObject
             ELSE IF IsGroup(sc, layers[i]) /\ "groupLayer" \notin DOMAIN info[i-1]
                  THEN getLayerPositionInfo(sc, layer, layers[i])
                  ELSE info[i-1]
       IN  IF indexOf(layers, layer) < 0
           THEN info[Len(layers)]
           ELSE [t |-> "object", position |-> indexOf(layers, layer), groupLayer |-> groupLayer]

\* layer.get('name') === name; an unset name is undefined and equals no string
HasName(sc, layer, name) == sc[layer.id].name # NoName /\ sc[layer.id].name = name

\* getLayerByName taking the last match instead of the first.
getLayerByNameLast(sc, map, name) ==
  LET layers == getAllLayers(sc, map, TrueFilter(sc)).items
      found == SelectSeq(layers, LAMBDA layer : HasName(sc, layer, name))
  IN  IF Len(found) = 0 THEN Undefined ELSE found[Len(found)]

(***************************************************************************)
(* MapUtil.getLayerByName(map, name): element [0] of the layers of         *)
(* getAllLayers(map) whose name matches; undefined for an empty match.     *)
(***************************************************************************)
getLayerByName(sc, map, name) ==
  LET layers == getAllLayers(sc, map, TrueFilter(sc)).items
      found == SelectSeq(layers, LAMBDA layer : HasName(sc, layer, name))
  IN  IF Len(found) = 0 THEN Undefined ELSE found[1]

(***************************************************************************)
(* The host application mutates the tree between calls (Collection.insertAt*)
(* on a group's layers); a result is a snapshot and is dropped with it.    *)
(***************************************************************************)
GroupNodes(sc) == {n \in DOMAIN sc : sc[n].kind = "group"}

InsertAt(s, pos, x) == SubSeq(s, 1, pos) \o <<x>> \o SubSeq(s, pos + 1, Len(s))

AddNode(limit, parent, pos, node) ==
  /\ Cardinality(DOMAIN scene) <= limit
  /\ parent \in GroupNodes(scene)
  /\ pos \in 0..Len(scene[parent].layers)
  /\ LET new == Cardinality(DOMAIN scene)
     IN  scene' = [n \in DOMAIN scene \cup {new} |->
                     IF n = new THEN node
                     ELSE IF n = parent
                          THEN [scene[n] EXCEPT !.layers = InsertAt(@, pos, new)]
                          ELSE scene[n]]
  /\ call' = NoCall
  /\ ret' = Undefined

AddGroup(limit, parent, pos, nm) == AddNode(limit, parent, pos, Group(nm))

AddLeaf(limit, parent, pos, nm, src) == AddNode(limit, parent, pos, Leaf(nm, src))

\* The values a caller may pass where a map or a group is expected.
Roots(sc) == {MapRef, Undefined} \cup AllRefs(sc)

Filters(sc) ==
  { TrueFilter(sc),
    {r \in AllRefs(sc) : sc[r.id].kind = "layer"},
    {r \in AllRefs(sc) : sc[r.id].kind = "group"} }

GetAllLayers(root, filter) ==
  /\ call = NoCall
  /\ call' = [op |-> "getAllLayers", root |-> root, filter |-> filter]
  /\ ret' = getAllLayers(scene, root, filter)
  /\ UNCHANGED scene

GetLayersByGroup(root) ==
  /\ call = NoCall
  /\ call' = [op |-> "getLayersByGroup", root |-> root]
  /\ ret' = getLayersByGroup(scene, MapRef, root)
  /\ UNCHANGED scene

GetLayerPositionInfo(layer, root) ==
  /\ call = NoCall
  /\ call' = [op |-> "getLayerPositionInfo", layer |-> layer, root |-> root]
  /\ ret' = getLayerPositionInfo(scene, layer, root)
  /\ UNCHANGED scene

GetLayerByName(name) ==
  /\ call = NoCall
  /\ call' = [op |-> "getLayerByName", name |-> name]
  /\ ret' = getLayerByName(scene, MapRef, name)
  /\ UNCHANGED scene

\* Every call is synchronous: the caller takes the outcome before anything else runs.
Return ==
  /\ call # NoCall
  /\ call' = NoCall
  /\ ret' = Undefined
  /\ UNCHANGED scene

InitScene ==
  /\ scene = EmptyScene
  /\ call = NoCall
  /\ ret = Undefined

Positions == 0..(MaxLayers + MaxNamedLayers)

PlainSource == [kind |-> "OSM"]

NextTree ==
  \/ \E p \in DOMAIN scene, pos \in Positions : AddGroup(MaxLayers, p, pos, NoName)
  \/ \E p \in DOMAIN scene, pos \in Positions : AddLeaf(MaxLayers, p, pos, NoName, PlainSource)
  \/ \E root \in Roots(scene), filter \in Filters(scene) : GetAllLayers(root, filter)
  \/ \E root \in Roots(scene) : GetLayersByGroup(root)
  \/ \E layer \in AllRefs(scene) \cup {Detached}, root \in Roots(scene) :
        GetLayerPositionInfo(layer, root)
  \/ Return

\* The layer tree and its walkers (getAllLayers, getLayersByGroup, getLayerPositionInfo).
SpecTree == InitScene /\ [][NextTree]_vars

\* The names layers and groups carry, and the names looked up.
Names == {"a", "b"}

NextName ==
  \/ \E p \in DOMAIN scene, pos \in Positions, nm \in Names \cup {NoName} : AddGroup(MaxNamedLayers, p, pos, nm)
  \/ \E p \in DOMAIN scene, pos \in Positions, nm \in Names \cup {NoName} :
        AddLeaf(MaxNamedLayers, p, pos, nm, PlainSource)
  \/ \E nm \in Names : GetLayerByName(nm)
  \/ Return

\* Named layers and groups, and the lookup by name.
SpecName == InitScene /\ [][NextName]_vars

(***************************************************************************)
(* The tree, stated without the walkers: parents, subtrees and the         *)
(* depth-first left-to-right order.                                        *)
(***************************************************************************)
Children(sc, g) == {sc[g].layers[i] : i \in 1..Len(sc[g].layers)}

Parent(sc, n) == CHOOSE p \in DOMAIN sc : n \in Children(sc, p)

\* n and its ancestors up to the map's root group
RECURSIVE PathToRoot(_, _)
PathToRoot(sc, n) == IF n = 0 THEN {0} ELSE {n} \cup PathToRoot(sc, Parent(sc, n))

\* g and everything below it
Subtree(sc, g) == {n \in DOMAIN sc : g \in PathToRoot(sc, n)}

Below(sc, g) == Subtree(sc, g) \ {g}

LeavesBelow(sc, g) == {n \in Below(sc, g) : sc[n].kind = "layer"}

\* x comes before y depth-first, left to right: under some group the branch
\* holding x stands left of the branch holding y
Before(sc, x, y) ==
  \E g \in GroupNodes(sc) : \E i, j \in 1..Len(sc[g].layers) :
     /\ i < j
     /\ sc[g].layers[i] \in PathToRoot(sc, x)
     /\ sc[g].layers[j] \in PathToRoot(sc, y)

\* The node a root argument stands for.
RootNode(x) == IF IsMap(x) THEN 0 ELSE x.id

\* The root argument is neither a map nor a group.
BadRoot(sc, x) == ~IsMap(x) /\ ~IsGroup(sc, x)

\* C1: getLayersByGroup(map, G) on a group G returns exactly the leaf layers
\* below G, each once, in depth-first left-to-right order, and no group.
C1_LeavesInOrder ==
  (call.op = "getLayersByGroup" /\ IsGroup(scene, call.root)) =>
     /\ ret.t = "array"
     /\ LET items == ret.items
            G == call.root.id
        IN  /\ {items[i] : i \in 1..Len(items)} = {LayerRef(n) : n \in LeavesBelow(scene, G)}
            /\ Len(items) = Cardinality(LeavesBelow(scene, G))
            /\ \A i, j \in 1..Len(items) : i < j => Before(scene, items[i].id, items[j].id)

\* C1 witness: a group holding a leaf and a nested group of two leaves was flattened
\* to three layers.
C1_Witness ==
  /\ call.op = "getLayersByGroup"
  /\ IsGroup(scene, call.root)
  /\ ret.t = "array"
  /\ Len(ret.items) = 3
  /\ \E g \in Below(scene, call.root.id) :
        scene[g].kind = "group" /\ Cardinality(LeavesBelow(scene, g)) = 2

\* C2: getLayerPositionInfo(L, R) for a map or group R: when L lies below R the
\* result names the group holding L as an immediate child and L's index in it;
\* otherwise the result has neither key.
C2_PositionInfo ==
  (call.op = "getLayerPositionInfo" /\ ~BadRoot(scene, call.root)) =>
     LET L == call.layer
         R == RootNode(call.root)
     IN  IF L.id \in Below(scene, R)
         THEN /\ DOMAIN ret = {"t", "position", "groupLayer"}
              /\ IsGroup(scene, ret.groupLayer)
              /\ ret.groupLayer.id \in Subtree(scene, R)
              /\ ret.position \in 0..(Len(scene[ret.groupLayer.id].layers) - 1)
              /\ scene[ret.groupLayer.id].layers[ret.position + 1] = L.id
         ELSE ret = EmptyObject

\* C2 witness: a layer was found at index 1 of a group nested below the root, after
\* an earlier sibling group was searched in vain.
C2_Witness ==
  /\ call.op = "getLayerPositionInfo"
  /\ IsMap(call.root)
  /\ "groupLayer" \in DOMAIN ret
  /\ ret.groupLayer.id # 0
  /\ ret.position = 1
  /\ \E g \in Children(scene, 0) :
        scene[g].kind = "group" /\ Before(scene, g, ret.groupLayer.id)

\* C2 witness of the other case: a layer outside the searched group.
C2_WitnessAbsent ==
  /\ call.op = "getLayerPositionInfo"
  /\ IsGroup(scene, call.root)
  /\ call.layer.id \in DOMAIN scene
  /\ call.layer.id \notin Subtree(scene, call.root.id)
  /\ Children(scene, call.root.id) # {}
  /\ ret = EmptyObject

Walkers == {"getAllLayers", "getLayersByGroup", "getLayerPositionInfo"}

ListedBefore(sc, x, y) == x \in Below(sc, y) \/ Before(sc, x, y)

\* C3 as stated: getLayerByName(map, n) returns the first leaf layer, depth-first
\* left to right, whose name is n, never a group, and undefined exactly when no
\* leaf layer has name n.
C3_FirstNamedLeaf ==
  (call.op = "getLayerByName") =>
     LET named == {x \in LeavesBelow(scene, 0) : scene[x].name = call.name}
     IN  IF named = {}
         THEN ret = Undefined
         ELSE /\ ret.t = "layer"
              /\ ret.id \in named
              /\ \A y \in named \ {ret.id} : Before(scene, ret.id, y)

\* C3 amended: getLayerByName(map, n) returns the first node, leaf or group, in
\* the order of getAllLayers (a group after its descendants) whose name is n,
\* and undefined exactly when no leaf and no group of the map has name n.
C3_FirstNamedNode ==
  (call.op = "getLayerByName") =>
     LET named == {x \in Below(scene, 0) : scene[x].name = call.name}
     IN  IF named = {}
         THEN ret = Undefined
         ELSE /\ ret.t = "layer"
              /\ ret.id \in named
              /\ \A y \in named \ {ret.id} : ListedBefore(scene, ret.id, y)

\* C3 witness: the lookup returned a group although a leaf of that name follows it.
C3_Witness ==
  /\ call.op = "getLayerByName"
  /\ ret.t = "layer"
  /\ scene[ret.id].kind = "group"
  /\ \E y \in LeavesBelow(scene, 0) :
        scene[y].name = call.name /\ ListedBefore(scene, ret.id, y)

(***************************************************************************)
(* Numbers.  A resolution is an integer count of quanta of 5e-11, so that  *)
(* the 1e-10 of getZoomForScale is two quanta; a scale is a count of the   *)
(* same quanta.  NaN is a value of its own.                                *)
(***************************************************************************)
Num(v) == [t |-> "number", v |-> v]

NaN == [t |-> "NaN"]

\* A call whose inputs are fixed and whose outcome is not computed yet.
Pending == [t |-> "pending"]

Abs(x) == IF x < 0 THEN -x ELSE x

\* 1e-10 (line 425), in quanta
Epsilon == 2

\* inchesPerMeter * dpi = 39.37 * 25.4 / 0.28 = 499999 / 140 (lines 88-90)
InchesPerMeterTimesDpiNum == 499999

InchesPerMeterTimesDpiDen == 140

\* METERS_PER_UNIT[units]; getZoomForScale defaults units to 'm'
MetersPerUnit(units) == IF units = "m" THEN 1 ELSE 0

(***************************************************************************)
(* MapUtil.getResolutionForScale(scale, units):                            *)
(* parseFloat(scale) / (mpu * inchesPerMeter * dpi); NaN stays NaN, and an *)
(* unknown unit (mpu undefined) gives NaN.  The scales drawn are multiples *)
(* of the divisor, so the quotient is exact.                               *)
(***************************************************************************)
getResolutionForScale(scale, units) ==
  IF scale.t = "NaN" \/ MetersPerUnit(units) = 0
  THEN NaN
  ELSE Num((scale.v \div (MetersPerUnit(units) * InchesPerMeterTimesDpiNum))
             * InchesPerMeterTimesDpiDen)

\* Math.abs(a - b) < Math.abs(c - b); every comparison with NaN is false
CloserThan(a, c, b) == b.t = "number" /\ Abs(a - b.v) < Abs(c - b.v)

\* The reduce of getZoomForScale with <= : a later entry wins a tie.
RECURSIVE closestValLaterWins(_, _, _)
closestValLaterWins(resolutions, calculatedResolution, n) ==
  IF n = 1 THEN resolutions[1]
  ELSE LET prev == closestValLaterWins(resolutions, calculatedResolution, n - 1)
           curr == resolutions[n]
       IN  IF calculatedResolution.t = "number"
              /\ Abs(curr - calculatedResolution.v) <= Abs(prev - calculatedResolution.v)
           THEN curr ELSE prev

\* resolutions.reduce((prev, curr) => |curr - r| < |prev - r| ? curr : prev)
\* over the first n entries, n >= 1 (lines 418-423)
RECURSIVE closestVal(_, _, _)
closestVal(resolutions, calculatedResolution, n) ==
  IF n = 1 THEN resolutions[1]
  ELSE LET prev == closestVal(resolutions, calculatedResolution, n - 1)
           curr == resolutions[n]
       IN  IF CloserThan(curr, prev, calculatedResolution) THEN curr ELSE prev

\* lodash findIndex(resolutions, o => Math.abs(o - closest) <= 1e-10), 0-based
findIndexNear(resolutions, closest) ==
  LET hits == {i \in 1..Len(resolutions) : Abs(resolutions[i] - closest) <= Epsilon}
  IN  IF hits = {} THEN -1
      ELSE (CHOOSE i \in hits : \A j \in hits : i <= j) - 1

(***************************************************************************)
(* MapUtil.getZoomForScale(scale, resolutions, units = 'm'); reduce on an  *)
(* empty array without an initial value throws a TypeError.                *)
(***************************************************************************)
getZoomForScale(scale, resolutions, units) ==
  IF scale.t = "NaN" THEN Num(0)
  ELSE IF scale.v < 0 THEN Num(0)
  ELSE IF Len(resolutions) = 0 THEN TypeError
  ELSE LET calculatedResolution == getResolutionForScale(scale, units)
           closest == closestVal(resolutions, calculatedResolution, Len(resolutions))
       IN  Num(findIndexNear(resolutions, closest))

GetZoomForScale ==
  /\ call.op = "getZoomForScale"
  /\ ret = Pending
  /\ ret' = getZoomForScale(call.scale, call.resolutions, call.units)
  /\ UNCHANGED <<scene, call>>

\* Longest resolution ladder.
MaxLadder == 3

\* How far, in quanta, a ladder entry lies from the resolution of the middle scale.
Spread == 3

\* Sequences over S of length 0..n
SeqsUpTo(S, n) == UNION {[1..k -> S] : k \in 0..n}

\* The scales: NaN, a negative one, and 0, 1, 2 times the scale whose
\* resolution in metres is InchesPerMeterTimesDpiDen quanta.
Scales == {NaN} \cup {Num(j * InchesPerMeterTimesDpiNum) : j \in -1..2}

ResolutionValues ==
  {InchesPerMeterTimesDpiDen + d : d \in -Spread..Spread}
    \cup {0, 2 * InchesPerMeterTimesDpiDen}

InitZoom ==
  /\ scene = EmptyScene
  /\ call \in [op : {"getZoomForScale"}, scale : Scales,
               resolutions : SeqsUpTo(ResolutionValues, MaxLadder), units : {"m"}]
  /\ ret = Pending

\* getZoomForScale on every scale and ladder drawn.
SpecZoom == InitZoom /\ [][GetZoomForScale]_vars

\* The 0-based index of the ladder entry nearest to r, the earlier entry on a tie.
NearestIndex(resolutions, r) ==
  (CHOOSE i \in 1..Len(resolutions) :
      /\ \A j \in 1..Len(resolutions) : Abs(resolutions[i] - r) <= Abs(resolutions[j] - r)
      /\ \A j \in 1..(i-1) : Abs(resolutions[j] - r) > Abs(resolutions[i] - r)) - 1

\* The resolution a non-negative scale in metres stands for, by multiplication.
ResolutionOf(scale) ==
  CHOOSE r \in 0..(3 * InchesPerMeterTimesDpiDen) :
     r * InchesPerMeterTimesDpiNum = scale.v * InchesPerMeterTimesDpiDen

ZoomCase == call.op = "getZoomForScale" /\ ret # Pending /\ Len(call.resolutions) > 0

\* C5 as stated: on a non-empty ladder getZoomForScale returns 0 for a NaN or
\* negative scale and otherwise the index of the entry nearest to the converted
\* resolution, the earlier entry winning a tie.
C5_NearestIndex ==
  ZoomCase =>
     IF call.scale.t = "NaN" \/ call.scale.v < 0
     THEN ret = Num(0)
     ELSE ret = Num(NearestIndex(call.resolutions, ResolutionOf(call.scale)))

\* C5 amended: ... and otherwise the smallest index whose entry lies within
\* 1e-10 of the nearest entry (the earlier entry winning a tie for nearest).
C5_FirstWithinEpsilonOfNearest ==
  ZoomCase =>
     IF call.scale.t = "NaN" \/ call.scale.v < 0
     THEN ret = Num(0)
     ELSE LET res == call.resolutions
              c == res[NearestIndex(res, ResolutionOf(call.scale)) + 1]
          IN  /\ ret.t = "number"
              /\ ret.v \in 0..(Len(res) - 1)
              /\ Abs(res[ret.v + 1] - c) <= Epsilon
              /\ \A j \in 1..ret.v : Abs(res[j] - c) > Epsilon

\* C5 witness: on a descending ladder whose second entry is the converted
\* resolution exactly, index 1 came back.
C5_Witness ==
  /\ ZoomCase
  /\ call.scale.t = "number"
  /\ call.scale.v > 0
  /\ Len(call.resolutions) = 3
  /\ call.resolutions[1] > call.resolutions[2]
  /\ call.resolutions[2] > call.resolutions[3]
  /\ call.resolutions[2] = ResolutionOf(call.scale)
  /\ ret = Num(1)

\* C5 witness of the amendment's case: an entry within 1e-10 of the nearest one
\* stands before it, and its index came back.
C5_WitnessNear ==
  /\ ZoomCase
  /\ call.scale.t = "number"
  /\ call.scale.v > 0
  /\ ret.t = "number"
  /\ ret.v < NearestIndex(call.resolutions, ResolutionOf(call.scale))

(***************************************************************************)
(* MapUtil.layerInResolutionRange(layer, map)                              *)
(***************************************************************************)
Infinity == [t |-> "Infinity"]

Bool(b) == [t |-> "boolean", v |-> b]

\* JavaScript truthiness of the values met here: undefined, null, 0 and NaN
\* are falsy; objects, non-zero numbers and Infinity are truthy.
Truthy(x) ==
  /\ x.t \notin {"undefined", "null", "NaN"}
  /\ (x.t = "number" => x.v # 0)

\* a >= b and a < b on numbers and Infinity
Geq(a, b) == IF a.t = "Infinity" THEN TRUE ELSE IF b.t = "Infinity" THEN FALSE ELSE a.v >= b.v

Less(a, b) == IF a.t = "Infinity" THEN FALSE ELSE IF b.t = "Infinity" THEN TRUE ELSE a.v < b.v

\* map && map.getView()
getView(map) == IF Truthy(map) THEN map.view ELSE map

\* mapView && mapView.getResolution()
getResolution(mapView) == IF Truthy(mapView) THEN mapView.resolution ELSE mapView

layerInResolutionRange(layer, map) ==
  LET mapView == getView(map)
      currentRes == getResolution(mapView)
  IN  IF ~Truthy(layer) \/ ~Truthy(mapView) \/ ~Truthy(currentRes)
      THEN Bool(FALSE)
      ELSE LET layerMinRes == layer.minResolution
               layerMaxRes == layer.maxResolution
           IN  Bool(Geq(currentRes, layerMinRes) /\ Less(currentRes, layerMaxRes))

LayerInResolutionRange ==
  /\ call.op = "layerInResolutionRange"
  /\ ret = Pending
  /\ ret' = layerInResolutionRange(call.layer, call.map)
  /\ UNCHANGED <<scene, call>>

\* Largest resolution drawn for a view or a layer bound.
MaxRes == 3

\* A layer with its bounds (0 and Infinity when unset), or no layer.
RangeLayers ==
  {Undefined} \cup
  [t : {"layer"}, minResolution : {Num(v) : v \in 0..MaxRes},
   maxResolution : {Num(v) : v \in 0..MaxRes} \cup {Infinity}]

\* A view with a resolution or without one yet, or no view.
Views == {Undefined} \cup [t : {"view"}, resolution : {Undefined} \cup {Num(v) : v \in 0..MaxRes}]

RangeMaps == {Undefined} \cup [t : {"map"}, view : Views]

InitRange ==
  /\ scene = EmptyScene
  /\ call \in [op : {"layerInResolutionRange"}, layer : RangeLayers, map : RangeMaps]
  /\ ret = Pending

\* layerInResolutionRange on every layer and map drawn.
SpecRange == InitRange /\ [][LayerInResolutionRange]_vars

\* The call has a layer, a view and a numeric view resolution.
RangeAllPresent ==
  /\ call.layer.t = "layer"
  /\ call.map.t = "map"
  /\ call.map.view.t = "view"
  /\ call.map.view.resolution.t = "number"

\* C6: with a layer, a view and a numeric resolution r >= 0 the result is true
\* exactly when minResolution <= r < maxResolution; with the layer, the map,
\* the view or the resolution absent it is false, and nothing is thrown.
C6_MinInclusiveMaxExclusive ==
  (call.op = "layerInResolutionRange" /\ ret # Pending) =>
     IF RangeAllPresent
     THEN LET r == call.map.view.resolution.v
              lo == call.layer.minResolution.v
              hi == call.layer.maxResolution
          IN  ret = Bool(lo <= r /\ (hi.t = "Infinity" \/ r < hi.v))
     ELSE ret = Bool(FALSE)

\* C6 away from resolution 0: the code agrees with the claim for every r > 0.
C6_PositiveResolutions ==
  (call.op = "layerInResolutionRange" /\ ret # Pending /\ RangeAllPresent
     /\ call.map.view.resolution.v > 0) =>
     LET r == call.map.view.resolution.v
         lo == call.layer.minResolution.v
         hi == call.layer.maxResolution
     IN  ret = Bool(lo <= r /\ (hi.t = "Infinity" \/ r < hi.v))

(***************************************************************************)
(* MapUtil.getLegendGraphicUrl(layer, extraParams).  A string is the       *)
(* sequence of its characters (longer tokens where the spelling does not   *)
(* matter); an object is the sequence of its <<key, value>> entries in     *)
(* insertion order.                                                        *)
(***************************************************************************)
Str(s) == [t |-> "string", s |-> s]

Null == [t |-> "null"]

\* `${x}` in a template literal
TemplateString(x) == IF x.t = "string" THEN x.s ELSE <<x.t>>

\* /\?/.test(url): the pattern is matched against String(url)
HasQuestionMark(url) == \E i \in 1..Len(TemplateString(url)) : TemplateString(url)[i] = "?"

Keys(obj) == {obj[i][1] : i \in 1..Len(obj)}

\* obj[key] = value: an own key keeps its place, a new key goes last
SetKey(obj, key, value) ==
  IF key \in Keys(obj)
  THEN [i \in 1..Len(obj) |-> IF obj[i][1] = key THEN <<key, value>> ELSE obj[i]]
  ELSE Append(obj, <<key, value>>)

\* Object.assign(target, source) over the first n entries of source;
\* an undefined source is skipped
RECURSIVE ObjectAssign(_, _, _)
ObjectAssign(target, source, n) ==
  IF n = 0 THEN target
  ELSE SetKey(ObjectAssign(target, source, n - 1), source[n][1], source[n][2])

\* UrlUtil.objectToRequestString of @terrestris/base-util: key=value joined by &
RECURSIVE objectToRequestString(_)
objectToRequestString(obj) ==
  IF Len(obj) = 0 THEN <<>>
  ELSE LET last == obj[Len(obj)]
           pair == <<last[1], "=", last[2]>>
       IN  IF Len(obj) = 1 THEN pair
           ELSE objectToRequestString(SubSeq(obj, 1, Len(obj) - 1)) \o <<"&">> \o pair

\* layer.getSource(): a group layer has no such method
HasGetSource(layer) == layer.t = "layer" /\ layer.kind = "layer"

IsTiledWMS(source) == source.kind = "TileWMS"

IsImageWMS(source) == source.kind = "ImageWMS"

\* source.getUrls() ? source.getUrls()[0] : '' -- an empty array is truthy and
\* its element 0 is undefined
FirstUrl(source) ==
  IF source.urls.t = "null" THEN Str(<<>>)
  ELSE IF Len(source.urls.items) = 0 THEN Undefined
  ELSE source.urls.items[1]

getLegendGraphicUrl(layer, extraParams) ==
  IF ~Truthy(layer) THEN Undefined
  ELSE IF ~HasGetSource(layer) THEN TypeError
  ELSE LET source == layer.source
       IN  IF source = NoSource THEN Undefined
           ELSE IF IsTiledWMS(source) \/ IsImageWMS(source)
           THEN LET url == IF IsTiledWMS(source) THEN FirstUrl(source) ELSE source.url
                    params == << <<"LAYER", source.params.LAYERS>>,
                                 <<"VERSION", "1.3.0">>,
                                 <<"SERVICE", "WMS">>,
                                 <<"REQUEST", "getLegendGraphic">>,
                                 <<"FORMAT", "image/png">> >>
                    assigned == IF extraParams.t = "undefined" THEN params
                                ELSE ObjectAssign(params, extraParams.entries,
                                                   Len(extraParams.entries))
                    queryString == objectToRequestString(assigned)
                IN  IF HasQuestionMark(url)
                    THEN Str(TemplateString(url) \o <<"&">> \o queryString)
                    ELSE Str(TemplateString(url) \o <<"?">> \o queryString)
           ELSE Undefined

GetLegendGraphicUrl ==
  /\ call.op = "getLegendGraphicUrl"
  /\ ret = Pending
  /\ ret' = getLegendGraphicUrl(call.layer, call.extraParams)
  /\ UNCHANGED <<scene, call>>

\* Longest URL, in characters, and longest URL list of a tiled source.
MaxUrlLen == 2

MaxUrls == 2

Urls == {Str(u) : u \in SeqsUpTo({"u", "?"}, MaxUrlLen)}

Obj(entries) == [t |-> "object", entries |-> entries]

WmsParams == [LAYERS : {"roads"}]

\* getUrls() of a tiled source: null when none was configured, else the array given
TileWmsSources ==
  [kind : {"TileWMS"},
   urls : {Null} \cup {Array(us) : us \in SeqsUpTo(Urls, MaxUrls)},
   params : WmsParams]

\* getUrl() of an image source: undefined when none was configured
ImageWmsSources == [kind : {"ImageWMS"}, url : {Undefined} \cup Urls, params : WmsParams]

LegendLayers ==
  {Undefined, Null, [t |-> "layer", kind |-> "group"]}
    \cup [t : {"layer"}, kind : {"layer"},
          source : {NoSource, PlainSource} \cup TileWmsSources \cup ImageWmsSources]

\* extraParams: omitted, or an object over a default key, another default key
\* and a key of the caller's own
ExtraParams ==
  {Undefined} \cup
  {Obj(e) : e \in { <<>>,
                    << <<"LAYER", "x">> >>,
                    << <<"STYLE", "x">> >>,
                    << <<"STYLE", "x">>, <<"FORMAT", "image/gif">> >>,
                    << <<"VERSION", "1.1.1">>, <<"LAYER", "x">>, <<"SCALE", "x">> >> }}

InitLegend ==
  /\ scene = EmptyScene
  /\ call \in [op : {"getLegendGraphicUrl"}, layer : LegendLayers, extraParams : ExtraParams]
  /\ ret = Pending

\* getLegendGraphicUrl on every layer and extraParams drawn.
SpecLegend == InitLegend /\ [][GetLegendGraphicUrl]_vars

LegendCase == call.op = "getLegendGraphicUrl" /\ ret # Pending

\* The layer has a tiled or single-image WMS source.
HasWmsSource(layer) ==
  /\ layer.t = "layer"
  /\ layer.kind = "layer"
  /\ layer.source.kind \in {"TileWMS", "ImageWMS"}

\* C7: getLegendGraphicUrl does not throw and returns undefined for an absent
\* layer, a group layer, a leaf layer without source and a leaf layer whose
\* source is of another kind.
C7_UndefinedNeverThrows ==
  (LegendCase /\ ~HasWmsSource(call.layer)) => ret = Undefined

\* C7 away from group layers: undefined for an absent layer, a layer without
\* source and a layer with a source of another kind.
C7_UndefinedExceptGroups ==
  (LegendCase /\ ~HasWmsSource(call.layer)
     /\ ~(call.layer.t = "layer" /\ call.layer.kind = "group")) => ret = Undefined

\* The entries of a query string k=v&k=v..., as a set of pairs; {} when the
\* tokens are no such string.
QueryPairs(q) ==
  IF Len(q) % 4 = 3
     /\ \A i \in 1..Len(q) : (i % 4 = 2 => q[i] = "=") /\ (i % 4 = 0 => q[i] = "&")
  THEN {<<q[4 * i + 1], q[4 * i + 3]>> : i \in 0..(Len(q) \div 4)}
  ELSE {}

LegendDefaults(source) ==
  [LAYER |-> source.params.LAYERS, VERSION |-> "1.3.0", SERVICE |-> "WMS",
   REQUEST |-> "getLegendGraphic", FORMAT |-> "image/png"]

\* The parameters the claim names: the defaults, overridden by extraParams.
LegendParams(source, extraParams) ==
  LET extra == IF extraParams.t = "undefined" THEN <<>> ELSE extraParams.entries
      value(k) == IF k \in Keys(extra)
                  THEN (CHOOSE e \in {extra[i] : i \in 1..Len(extra)} : e[1] = k)[2]
                  ELSE LegendDefaults(source)[k]
  IN  {<<k, value(k)>> : k \in DOMAIN LegendDefaults(source) \cup Keys(extra)}

\* The base URL the claim names: the first URL of a tiled source, the empty
\* string if it has none; the URL of an image source.
LegendBase(source) ==
  IF source.kind = "TileWMS"
  THEN IF source.urls.t = "null" \/ Len(source.urls.items) = 0
       THEN <<>> ELSE source.urls.items[1].s
  ELSE source.url.s

IsLegendUrl(result, source, extraParams) ==
  LET base == LegendBase(source)
      sep == IF \E i \in 1..Len(base) : base[i] = "?" THEN "&" ELSE "?"
  IN  /\ result.t = "string"
      /\ Len(result.s) > Len(base)
      /\ SubSeq(result.s, 1, Len(base)) = base
      /\ result.s[Len(base) + 1] = sep
      /\ LET q == SubSeq(result.s, Len(base) + 2, Len(result.s))
         IN  /\ QueryPairs(q) = LegendParams(source, extraParams)
             /\ Len(q) = 4 * Cardinality(LegendParams(source, extraParams)) - 1

\* An image source has a URL configured.
UrlConfigured(source) == source.kind = "ImageWMS" => source.url.t = "string"

\* C8: for a layer with a tiled or single-image WMS source the result is
\* base + separator + encode(P): base the first URL of a tiled source (the empty
\* string if it has none) or the URL of an image source, P the five defaults
\* overridden by extraParams, separator & if base holds a ? and ? otherwise.
C8_LegendUrl ==
  (LegendCase /\ HasWmsSource(call.layer) /\ UrlConfigured(call.layer.source)) =>
     IsLegendUrl(ret, call.layer.source, call.extraParams)

\* C8 away from the empty URL list: the claim holds for a tiled source whose
\* getUrls() is null or a non-empty array, and for an image source with a URL.
C8_LegendUrlUnlessEmptyList ==
  (LegendCase /\ HasWmsSource(call.layer) /\ UrlConfigured(call.layer.source)
     /\ ~(call.layer.source.kind = "TileWMS" /\ call.layer.source.urls = Array(<<>>))) =>
     IsLegendUrl(ret, call.layer.source, call.extraParams)

(***************************************************************************)
(* MapUtil.getLayerByNameParam(map, name): the for-of loop over            *)
(* getAllLayers(map) from entry i on.  A group has no getSource and is     *)
(* skipped; getSource() of a layer without source is null, and reading     *)
(* getParams off it throws.                                                *)
(***************************************************************************)
\* source.getParams is defined
HasGetParams(source) == source.kind \in {"TileWMS", "ImageWMS"}

RECURSIVE layerCandidateFrom(_, _, _, _)
layerCandidateFrom(sc, layers, name, i) ==
  IF i > Len(layers) THEN Undefined
  ELSE LET layer == layers[i]
           source == sc[layer.id].source
       IN  IF sc[layer.id].kind = "group" THEN layerCandidateFrom(sc, layers, name, i + 1)
           ELSE IF source = NoSource THEN TypeError
           ELSE IF HasGetParams(source) /\ source.params.LAYERS = name THEN layer
           ELSE layerCandidateFrom(sc, layers, name, i + 1)

getLayerByNameParam(sc, map, name) ==
  layerCandidateFrom(sc, getAllLayers(sc, map, TrueFilter(sc)).items, name, 1)

GetLayerByNameParam(name) ==
  /\ call = NoCall
  /\ call' = [op |-> "getLayerByNameParam", name |-> name]
  /\ ret' = getLayerByNameParam(scene, MapRef, name)
  /\ UNCHANGED scene

\* The values of the LAYERS parameter, of sources and of lookups.
LayersParams == {"roads", "rivers"}

WmsSource(l) == [kind |-> "TileWMS", urls |-> Null, params |-> [LAYERS |-> l]]

\* What a leaf layer owns: no source, a source without request parameters, or
\* a WMS source.
LeafSources == {NoSource, PlainSource} \cup {WmsSource(l) : l \in LayersParams}

NextParam ==
  \/ \E p \in DOMAIN scene, pos \in Positions : AddGroup(MaxNamedLayers, p, pos, NoName)
  \/ \E p \in DOMAIN scene, pos \in Positions, src \in LeafSources :
        AddLeaf(MaxNamedLayers, p, pos, NoName, src)
  \/ \E l \in LayersParams : GetLayerByNameParam(l)
  \/ Return

\* Layers with sources, and the lookup by the LAYERS parameter.
SpecParam == InitScene /\ [][NextParam]_vars

\* The leaf layers whose source has request parameters with LAYERS = v.
WithLayersParam(sc, v) ==
  {x \in LeavesBelow(sc, 0) :
      sc[x].source.kind \in {"TileWMS", "ImageWMS"} /\ sc[x].source.params.LAYERS = v}

IsFirstWithLayersParam(sc, v, result) ==
  IF WithLayersParam(sc, v) = {}
  THEN result = Undefined
  ELSE /\ result.t = "layer"
       /\ result.id \in WithLayersParam(sc, v)
       /\ \A y \in WithLayersParam(sc, v) \ {result.id} : Before(sc, result.id, y)

\* C9: getLayerByNameParam(map, v) never throws; it returns the first layer in
\* traversal order whose source has request parameters with LAYERS = v and
\* undefined when there is none; layers without source, groups and layers whose
\* source has no request parameters are skipped.
C9_FirstByLayersParam ==
  (call.op = "getLayerByNameParam") => IsFirstWithLayersParam(scene, call.name, ret)

\* C9 away from layers without source: the claim holds on every map all of
\* whose leaf layers own a source.
C9_WhenEveryLeafHasASource ==
  (call.op = "getLayerByNameParam"
     /\ \A x \in LeavesBelow(scene, 0) : scene[x].source # NoSource) =>
     IsFirstWithLayersParam(scene, call.name, ret)

(***************************************************************************)
(* MapUtil.roundScale(scale).  A scale here is a count of halves, so that  *)
(* the ties of Math.round are met: Halves(n) is the number n / 2.          *)
(***************************************************************************)
Halves(n) == [t |-> "number", halves |-> n]

\* Math.floor(x / d) for x = n / 2
MathFloorOfQuotient(n, d) == n \div (2 * d)

\* Math.round(x / d) for x = n / 2: floor(x / d + 1/2); the second argument
\* that line 383 passes to Math.round is ignored by it
MathRoundOfQuotient(n, d) == (n + d) \div (2 * d)

\* scale < bound and scale >= bound; false when scale is NaN
LessThan(scale, bound) == scale.t = "number" /\ scale.halves < 2 * bound

AtLeast(scale, bound) == scale.t = "number" /\ scale.halves >= 2 * bound

\* roundScale with Math.floor in place of Math.round.
roundScaleFloor(scale) ==
  LET r1 == IF LessThan(scale, 100)
            THEN Num(MathFloorOfQuotient(scale.halves, 1)) ELSE Undefined
      r2 == IF AtLeast(scale, 100) /\ LessThan(scale, 10000)
            THEN Num(MathFloorOfQuotient(scale.halves, 10) * 10) ELSE r1
      r3 == IF AtLeast(scale, 10000) /\ LessThan(scale, 1000000)
            THEN Num(MathFloorOfQuotient(scale.halves, 100) * 100) ELSE r2
      r4 == IF AtLeast(scale, 1000000)
            THEN Num(MathFloorOfQuotient(scale.halves, 1000) * 1000) ELSE r3
  IN  r4

\* The four ifs run one after the other, each overwriting roundScale, which
\* starts undefined.
roundScale(scale) ==
  LET r1 == IF LessThan(scale, 100)
            THEN Num(MathRoundOfQuotient(scale.halves, 1)) ELSE Undefined
      r2 == IF AtLeast(scale, 100) /\ LessThan(scale, 10000)
            THEN Num(MathRoundOfQuotient(scale.halves, 10) * 10) ELSE r1
      r3 == IF AtLeast(scale, 10000) /\ LessThan(scale, 1000000)
            THEN Num(MathRoundOfQuotient(scale.halves, 100) * 100) ELSE r2
      r4 == IF AtLeast(scale, 1000000)
            THEN Num(MathRoundOfQuotient(scale.halves, 1000) * 1000) ELSE r3
  IN  r4

RoundScale ==
  /\ call.op = "roundScale"
  /\ ret = Pending
  /\ ret' = roundScale(call.scale)
  /\ UNCHANGED <<scene, call>>

\* How many strides to either side of a tier boundary the scales are drawn.
MaxStrides == 3

\* The scales next to a tier boundary, and the boundaries themselves
TierEdges == {0, 99, 100, 9999, 10000, 999999, 1000000}

\* Strides in halves: half a unit, and half a step of each tier
Strides == {1, 10, 100, 1000}

RoundScales ==
  {NaN} \cup
  {Halves(2 * b + k * q) : b \in TierEdges, q \in Strides, k \in (-MaxStrides)..MaxStrides}

InitRound ==
  /\ scene = EmptyScene
  /\ call \in [op : {"roundScale"}, scale : RoundScales]
  /\ ret = Pending

\* roundScale on every scale drawn.
SpecRound == InitRound /\ [][RoundScale]_vars

\* step(s) of the claim, for s = n / 2
StepOf(n) ==
  IF n < 2 * 100 THEN 1
  ELSE IF n < 2 * 10000 THEN 10
  ELSE IF n < 2 * 1000000 THEN 100
  ELSE 1000

RoundCase ==
  /\ call.op = "roundScale"
  /\ ret # Pending
  /\ call.scale.t = "number"
  /\ call.scale.halves >= 0

\* C10: for a scale s >= 0 roundScale(s) is the multiple m of step(s) nearest
\* to s, a half rounded up: m - step/2 <= s < m + step/2; so 99 gives 99, 100
\* gives 100, 9999 gives 10000, 10000 gives 10000 and 999999 gives 1000000.
C10_NearestMultipleOfStep ==
  RoundCase =>
     LET n == call.scale.halves
         step == StepOf(n)
     IN  /\ ret.t = "number"
         /\ ret.v % step = 0
         /\ 2 * ret.v - step <= n
         /\ n < 2 * ret.v + step
         /\ (n = 2 * 99 => ret.v = 99)
         /\ (n = 2 * 100 => ret.v = 100)
         /\ (n = 2 * 9999 => ret.v = 10000)
         /\ (n = 2 * 10000 => ret.v = 10000)
         /\ (n = 2 * 999999 => ret.v = 1000000)

\* C10 witness: 9999 was rounded, in the tier of tens, up to 10000.
C10_Witness ==
  /\ RoundCase
  /\ call.scale.halves = 2 * 9999
  /\ ret = Num(10000)

\* C10 witness of a tie: 10050 lies halfway between two hundreds and went up.
C10_WitnessTie ==
  /\ RoundCase
  /\ call.scale.halves = 2 * 10050
  /\ ret = Num(10100)


(***************************************************************************)
(* AnimateUtil.moveFeature(map, featureToMove, duration, pixel, style)     *)
(* (src/src/AnimateUtil/AnimateUtil.js).  ret holds the promise and the    *)
(* closure of the call: whether the postcompose listener is registered,    *)
(* actualFrames, the translation applied to the geometry so far and the    *)
(* time since start.  Lengths are exact: a translation is a count of       *)
(* 1 / (duration * 60) map units, so that deltaX = totalDisplacement /     *)
(* expectedFrames = totalDisplacement * 1000 / (duration * 60) is whole.   *)
(***************************************************************************)
\* pixel * resolution
totalDisplacement(c) == c.pixel * c.resolution

\* deltaX and deltaY, in units of 1 / (duration * 60)
delta(c) == totalDisplacement(c) * 1000

\* actualFrames >= expectedFrames, with expectedFrames = duration / 1000 * 60
ReachedExpectedFrames(c, actualFrames) == actualFrames * 1000 >= c.duration * 60

\* The promise executor: listenerKey = map.on('postcompose', animate); map.render()
MoveFeature ==
  /\ call.op = "moveFeature"
  /\ ret = Pending
  /\ ret' = [t |-> "promise", resolved |-> FALSE, listening |-> TRUE,
             actualFrames |-> 0, x |-> 0, y |-> 0, elapsed |-> 0]
  /\ UNCHANGED <<scene, call>>

\* Longest time, in ms, a run is followed after start.
MaxElapsed == 150

\* A postcompose event dt ms after the previous frame, while the listener is
\* registered: animate(event)
Postcompose(dt) ==
  /\ call.op = "moveFeature"
  /\ ret.t = "promise"
  /\ ret.listening
  /\ ret.elapsed + dt <= MaxElapsed
  /\ LET elapsed == ret.elapsed + dt
         done == elapsed > call.duration \/ ReachedExpectedFrames(call, ret.actualFrames)
     IN  ret' = [ret EXCEPT !.x = @ + delta(call),
                            !.y = @ + delta(call),
                            !.listening = ~done,
                            !.resolved = @ \/ done,
                            !.actualFrames = @ + 1,
                            !.elapsed = elapsed]
  /\ UNCHANGED <<scene, call>>

\* A frame after OlObservable.unByKey(listenerKey): animate is not called
Render(dt) ==
  /\ call.op = "moveFeature"
  /\ ret.t = "promise"
  /\ ~ret.listening
  /\ ret.elapsed + dt <= MaxElapsed
  /\ ret' = [ret EXCEPT !.elapsed = @ + dt]
  /\ UNCHANGED <<scene, call>>

\* Time between two frames, in ms: faster than, about and slower than 60 per second
FrameIntervals == {10, 17, 30}

\* duration in ms (expectedFrames 3 and 6), pixel delta, view resolution
AnimateCalls ==
  [op : {"moveFeature"}, duration : {50, 100}, pixel : {-2, 1, 3}, resolution : {1, 2}]

InitAnimate ==
  /\ scene = EmptyScene
  /\ call \in AnimateCalls
  /\ ret = Pending

NextAnimate ==
  \/ MoveFeature
  \/ \E dt \in FrameIntervals : Postcompose(dt)
  \/ \E dt \in FrameIntervals : Render(dt)

\* moveFeature and the frames that follow it.
SpecAnimate == InitAnimate /\ [][NextAnimate]_vars

Resolved == call.op = "moveFeature" /\ ret.t = "promise" /\ ret.resolved

\* The total displacement in the units of the translation.
TotalInUnits(c) == totalDisplacement(c) * c.duration * 60

\* C11: when the promise of moveFeature resolves, the translations applied to
\* the geometry add up to pixel * resolution on each axis, and the postcompose
\* listener is unregistered in that frame.
C11_EndsAtPixelDelta ==
  Resolved =>
     /\ ret.x = TotalInUnits(call)
     /\ ret.y = TotalInUnits(call)
     /\ ~ret.listening

\* C11, the listener: it is unregistered in the frame that resolves the promise.
C11_UnregisteredWhenResolved == Resolved => ~ret.listening

\* C11, afterwards: once the promise is resolved the geometry is not translated again.
C11_NotTranslatedAfterResolve ==
  [][Resolved => (ret'.x = ret.x /\ ret'.y = ret.y)]_vars

\* C11, the frames at which the claim does hold: the promise was resolved by
\* elapsed > duration in the frame that made actualFrames equal expectedFrames.
C11_ExactRunExists ==
  /\ Resolved
  /\ ret.x = TotalInUnits(call)
  /\ ret.actualFrames * 1000 = call.duration * 60

====
